---- MODULE Spec2Model ----
(***************************************************************************)
(* State-machine model of the ShareJS session coordinator (src/index.js):  *)
(* the presence registry `docs`, the lock registry `locked`, the           *)
(* WebSocket server's client list, the per-connection duplex stream handed *)
(* to the synchronization engine, and the administrative HTTP endpoints.   *)
(*                                                                         *)
(* Every handler of index.js is one action.  A handler runs to completion  *)
(* on the event loop, so an action is atomic.  The variables `out`,        *)
(* `lastOp`, `regs`, `rels`, `nmsgs`, `closes` and `releases` are history  *)
(* variables: they record what the last handler emitted and how often a    *)
(* handler ran; no handler reads them.                                     *)
(*                                                                         *)
(* Presence records carry display metadata (name, url, gravatar) besides   *)
(* the count; the metadata is written once at creation and never read by   *)
(* the coordinator, so a record is modelled by its count.                  *)
(***************************************************************************)
EXTENDS Integers, Sequences, FiniteSets, TLC

\* Bound of the model: inbound messages handled in a run, over all sessions
MaxMsgs == 2

\* Connections, numbered in the order they are accepted
Sessions == {1, 2}
DocIds == {"d1", "d2"}
UserIds == {"u1", "u2"}
\* Contributor payloads of reload and unlock requests
Payloads == {"p1", "p2"}
\* Redirect targets of redirect and delete requests
Redirects == {"r1"}

\* client.userMeta before registration (undefined)
NoMeta == [docId |-> "undefined", userId |-> "undefined"]
\* stream.push(null)
EOS == 0

VARIABLES
  docs,        \* presence registry: docId -> (userId -> [count])
  locked,      \* lock registry: the set of keys of `locked` (each maps to true)
  clients,     \* wss.clients, in connection order
  readyState,  \* per session: "NONE" (not yet connected), "OPEN", "CLOSING", "CLOSED"
  userMeta,    \* client.userMeta: NoMeta or the registration message
  stream,      \* per session: what was pushed to the engine's readable side
  ended,       \* per session: the stream's 'end' event has been emitted
  crashed,     \* an exception left a handler uncaught
  nmsgs,       \* per session: inbound messages handled so far
  regs,        \* per (docId, userId): registrations applied
  rels,        \* per (docId, userId): releases applied (closes of a session attached to it)
  closes,      \* per session: runs of the 'close' handler
  releases,    \* per session: runs of the release branch of the 'close' handler
  out,         \* what the last handler emitted: a sequence of send events
  lastOp       \* the last handler and its input

vars == <<docs, locked, clients, readyState, userMeta, stream, ended, crashed,
          nmsgs, regs, rels, closes, releases, out, lastOp>>

----------------------------------------------------------------------------
\* Helpers over finite maps (JavaScript objects used as dictionaries)

EmptyMap == [x \in {} |-> 0]
Put(f, k, v) == [x \in (DOMAIN f) \cup {k} |-> IF x = k THEN v ELSE f[x]]
Del(f, k) == [x \in (DOMAIN f) \ {k} |-> f[x]]
Has(f, k) == k \in DOMAIN f

SeqToSet(q) == {q[i] : i \in 1..Len(q)}
RECURSIVE Without(_, _)
Without(q, x) ==
  IF q = <<>> THEN <<>>
  ELSE IF Head(q) = x THEN Without(Tail(q), x)
       ELSE <<Head(q)>> \o Without(Tail(q), x)

\* A handler invocation: its name, the session (0 for an HTTP endpoint), its
\* input, and whether the lock flag it reads was set when it started
Op(name, s, docId, userId, arg, wasLocked) ==
  [op |-> name, s |-> s, docId |-> docId, userId |-> userId, arg |-> arg,
   wasLocked |-> wasLocked]

\* Inbound payloads: unparseable text, a registration message, any other JSON value
Malformed == [kind |-> "malformed", docId |-> "none", userId |-> "none"]
Data == [kind |-> "data", docId |-> "none", userId |-> "none"]
Registration(d, u) == [kind |-> "registration", docId |-> d, userId |-> u]
Messages == {Malformed, Data} \cup {Registration(d, u) : d \in DocIds, u \in UserIds}

----------------------------------------------------------------------------
\* Messages sent to clients

LockMsg == [type |-> "lock", body |-> "none"]
UnlockMsg(p) == [type |-> "unlock", body |-> p]
ReloadMsg(p) == [type |-> "reload", body |-> p]
RedirectMsg(p) == [type |-> "redirect", body |-> p]
DeleteMsg(p) == [type |-> "delete", body |-> p]
\* {type: 'meta', users: docs[docId]}: undefined when the document has no entry
MetaMsg(dcs, docId) ==
  [type |-> "meta",
   body |-> IF Has(dcs, docId) THEN [defined |-> TRUE, users |-> dcs[docId]]
            ELSE [defined |-> FALSE, users |-> EmptyMap]]

\* client.send throws unless the connection is open
SendOk(rs, c) == rs[c] = "OPEN"

\* client.send(...) inside try/catch: the event records the attempt and the delivery
clientSend(rs, c, message) ==
  [kind |-> "send", docId |-> "none", msg |-> message,
   to |-> <<c>>, got |-> IF SendOk(rs, c) THEN <<c>> ELSE <<>>]

\* Mutant of Targets: the docId test is left out, every client is a target
Targets_AllClients(cs, um, docId) == cs

\* wss.broadcast: iterate over every client, send to those attached to docId,
\* swallow a failing send and go on
RECURSIVE Targets(_, _, _)
Targets(cs, um, docId) ==
  IF cs = <<>> THEN <<>>
  ELSE (IF um[Head(cs)] # NoMeta /\ um[Head(cs)].docId = docId
        THEN <<Head(cs)>> ELSE <<>>) \o Targets(Tail(cs), um, docId)

\* Mutant of Delivered: a failing send aborts the iteration
RECURSIVE Delivered_AbortOnFailure(_, _)
Delivered_AbortOnFailure(ts, rs) ==
  IF ts = <<>> THEN <<>>
  ELSE IF SendOk(rs, Head(ts))
       THEN <<Head(ts)>> \o Delivered_AbortOnFailure(Tail(ts), rs)
       ELSE <<>>

RECURSIVE Delivered(_, _)
Delivered(ts, rs) ==
  IF ts = <<>> THEN <<>>
  ELSE (IF SendOk(rs, Head(ts)) THEN <<Head(ts)>> ELSE <<>>) \o Delivered(Tail(ts), rs)

\* Mutant of broadcast: delivery goes by a per-document index of registered
\* sessions that a close never cleans up, with no check of the connection
broadcast_StaleIndex(cs, rs, um, docId, message) ==
  LET idx == {s \in DOMAIN um : um[s] # NoMeta /\ um[s].docId = docId}
      RECURSIVE AsSeq(_)
      AsSeq(S) == IF S = {} THEN <<>>
                  ELSE LET x == CHOOSE y \in S : \A z \in S : y <= z
                       IN <<x>> \o AsSeq(S \ {x})
  IN [kind |-> "broadcast", docId |-> docId, msg |-> message,
      to |-> AsSeq(idx), got |-> AsSeq(idx)]

broadcast(cs, rs, um, docId, message) ==
  [kind |-> "broadcast", docId |-> docId, msg |-> message,
   to |-> Targets(cs, um, docId),
   got |-> Delivered(Targets(cs, um, docId), rs)]

----------------------------------------------------------------------------
\* Registries

\* Mutant of register: an existing record is left as it is (count++ forgotten)
register_NoIncrement(dcs, docId, userId) ==
  LET withDoc == IF Has(dcs, docId) THEN dcs ELSE Put(dcs, docId, EmptyMap)
      users == withDoc[docId]
  IN IF ~Has(users, userId)
     THEN Put(withDoc, docId, Put(users, userId, [count |-> 1]))
     ELSE withDoc

\* Mutant of register: the record is written anew on every registration
register_Overwrite(dcs, docId, userId) ==
  LET withDoc == IF Has(dcs, docId) THEN dcs ELSE Put(dcs, docId, EmptyMap)
  IN Put(withDoc, docId, Put(withDoc[docId], userId, [count |-> 1]))

\* registration branch: create the document entry, create the record or count++
register(dcs, docId, userId) ==
  LET withDoc == IF Has(dcs, docId) THEN dcs ELSE Put(dcs, docId, EmptyMap)
      users == withDoc[docId]
  IN IF ~Has(users, userId)
     THEN Put(withDoc, docId, Put(users, userId, [count |-> 1]))
     ELSE Put(withDoc, docId,
              Put(users, userId, [count |-> users[userId].count + 1]))

\* Mutant of release: the emptied document entry is never deleted
release_LeakDoc(dcs, docId, userId) ==
  IF Has(dcs, docId) /\ Has(dcs[docId], userId)
  THEN LET n == dcs[docId][userId].count - 1
       IN IF n = 0
          THEN Put(dcs, docId, Del(dcs[docId], userId))
          ELSE Put(dcs, docId, Put(dcs[docId], userId, [count |-> n]))
  ELSE dcs

\* Mutant of release: the record is deleted whatever its count
release_DropRecord(dcs, docId, userId) ==
  IF Has(dcs, docId) /\ Has(dcs[docId], userId)
  THEN LET users == Del(dcs[docId], userId)
       IN IF DOMAIN users = {} THEN Del(dcs, docId) ELSE Put(dcs, docId, users)
  ELSE dcs

\* close handler: count--, delete the record at 0, delete the emptied document
release(dcs, docId, userId) ==
  IF Has(dcs, docId) /\ Has(dcs[docId], userId)
  THEN LET n == dcs[docId][userId].count - 1
       IN IF n = 0
          THEN LET users == Del(dcs[docId], userId)
               IN IF DOMAIN users = {} THEN Del(dcs, docId)
                  ELSE Put(dcs, docId, users)
          ELSE Put(dcs, docId, Put(dcs[docId], userId, [count |-> n]))
  ELSE dcs

\* Mutant of unlockDoc: the flag is toggled instead of deleted
unlockDoc_Toggle(lk, id) == IF id \in lk THEN lk \ {id} ELSE lk \cup {id}

\* locked[id] = true
lockDoc(lk, id) == lk \cup {id}
\* delete locked[id]
unlockDoc(lk, id) == lk \ {id}
\* Mutant of lockGate: the lock registry is read under the user id
lockGate_WrongKey(um, lk, s) == um[s] # NoMeta /\ um[s].userId \in lk

\* Mutant of lockGate: any locked document gates every session
lockGate_AnyLocked(um, lk, s) == lk # {}

\* client.userMeta && locked[client.userMeta.docId]
lockGate(um, lk, s) == um[s] # NoMeta /\ um[s].docId \in lk

\* client.close(): a no-op unless the connection is open
clientClose(rs, s) == IF rs[s] = "OPEN" THEN [rs EXCEPT ![s] = "CLOSING"] ELSE rs

\* Inbound messages handled so far, over all sessions
RECURSIVE Sum(_, _)
Sum(f, S) == IF S = {} THEN 0 ELSE LET x == CHOOSE y \in S : TRUE IN f[x] + Sum(f, S \ {x})
Total(f) == Sum(f, DOMAIN f)

----------------------------------------------------------------------------
Init ==
  /\ docs = EmptyMap
  /\ locked = {}
  /\ clients = <<>>
  /\ readyState = [s \in Sessions |-> "NONE"]
  /\ userMeta = [s \in Sessions |-> NoMeta]
  /\ stream = [s \in Sessions |-> <<>>]
  /\ ended = [s \in Sessions |-> FALSE]
  /\ crashed = FALSE
  /\ nmsgs = [s \in Sessions |-> 0]
  /\ regs = [p \in DocIds \X UserIds |-> 0]
  /\ rels = [p \in DocIds \X UserIds |-> 0]
  /\ closes = [s \in Sessions |-> 0]
  /\ releases = [s \in Sessions |-> 0]
  /\ out = <<>>
  /\ lastOp = Op("init", 0, "none", "none", "none", FALSE)

\* wss.on('connection'): the server tracks the client, the stream is created.
\* Sessions are numbered in the order they connect.
Connect(s) ==
  /\ ~crashed
  /\ readyState[s] = "NONE"
  /\ \A r \in Sessions : r < s => readyState[r] # "NONE"
  /\ readyState' = [readyState EXCEPT ![s] = "OPEN"]
  /\ clients' = Append(clients, s)
  /\ out' = <<>>
  /\ lastOp' = Op("connect", s, "none", "none", "none", FALSE)
  /\ UNCHANGED <<docs, locked, userMeta, stream, ended, crashed, nmsgs, regs,
                 rels, closes, releases>>

\* Mutant of lockNotice: the direct notice is left out
lockNotice_Missing(rs, lk, s, docId) == <<>>

\* if (locked[docId]) client.send({type: 'lock'}), after a registration
lockNotice(rs, lk, s, docId) ==
  IF docId \in lk THEN <<clientSend(rs, s, LockMsg)>> ELSE <<>>

\* Mutant of push: the record is pushed twice
push_Twice(st, s, n) == [st EXCEPT ![s] = Append(Append(@, n), n)]

\* stream.push(data)
push(st, s, n) == [st EXCEPT ![s] = Append(@, n)]

\* Mutant of registrationOut: the direct lock notice goes out before the
\* presence broadcast
registrationOut_NoticeFirst(cs, rs, um, dcs, lk, s, docId) ==
  lockNotice(rs, lk, s, docId)
  \o <<broadcast(cs, rs, um, docId, MetaMsg(dcs, docId))>>

\* What a registration emits once client.userMeta is set: the presence
\* broadcast to the document, then the direct lock notice if it is locked
registrationOut(cs, rs, um, dcs, lk, s, docId) ==
  <<broadcast(cs, rs, um, docId, MetaMsg(dcs, docId))>>
  \o lockNotice(rs, lk, s, docId)

\* client.on('message')
OnMessage(s, m) ==
  /\ ~crashed
  /\ readyState[s] = "OPEN"
  /\ Total(nmsgs) < MaxMsgs
  /\ nmsgs' = [nmsgs EXCEPT ![s] = @ + 1]
  /\ lastOp' = Op("message", s, m.docId, m.userId, m.kind, lockGate(userMeta, locked, s))
  /\ IF lockGate(userMeta, locked, s)
     THEN \* locked: rebroadcast the lock notice and drop the message
          /\ out' = <<broadcast(clients, readyState, userMeta, userMeta[s].docId, LockMsg)>>
          /\ UNCHANGED <<docs, userMeta, stream, crashed, regs>>
     ELSE IF m.kind = "malformed"
     THEN \* JSON.parse throws; the catch block reads the undeclared variable
          \* `message` (and calls client.captureMessage, which a WebSocket does
          \* not have): the exception leaves the handler
          /\ crashed' = TRUE
          /\ out' = <<>>
          /\ UNCHANGED <<docs, userMeta, stream, regs>>
     ELSE IF m.kind = "registration"
     THEN /\ docs' = register(docs, m.docId, m.userId)
          /\ regs' = [regs EXCEPT ![<<m.docId, m.userId>>] = @ + 1]
          /\ userMeta' = [userMeta EXCEPT ![s] = [docId |-> m.docId, userId |-> m.userId]]
          /\ out' = registrationOut(clients, readyState, userMeta', docs', locked,
                                     s, m.docId)
          /\ UNCHANGED <<stream, crashed>>
     ELSE \* stream.push(data): the record is identified by its arrival number
          /\ stream' = push(stream, s, nmsgs'[s])
          /\ out' = <<>>
          /\ UNCHANGED <<docs, userMeta, crashed, regs>>
  /\ UNCHANGED <<locked, clients, readyState, ended, rels, closes, releases>>

\* The body of client.on('close'), run for session s once the server has
\* dropped s from wss.clients (its own 'close' listener is registered first)
onClose(s) ==
  /\ clients' = Without(clients, s)
  /\ closes' = [closes EXCEPT ![s] = @ + 1]
  /\ IF userMeta[s] # NoMeta
     THEN /\ docs' = release(docs, userMeta[s].docId, userMeta[s].userId)
          /\ rels' = [rels EXCEPT ![<<userMeta[s].docId, userMeta[s].userId>>] = @ + 1]
          /\ releases' = [releases EXCEPT ![s] = @ + 1]
          /\ out' = <<broadcast(clients', readyState', userMeta, userMeta[s].docId,
                                MetaMsg(docs', userMeta[s].docId))>>
     ELSE /\ out' = <<>>
          /\ UNCHANGED <<docs, rels, releases>>
  /\ stream' = [stream EXCEPT ![s] = Append(@, EOS)]

\* The raw connection closes: the socket emits 'close' once
Close(s) ==
  /\ ~crashed
  /\ readyState[s] \in {"OPEN", "CLOSING"}
  /\ readyState' = [readyState EXCEPT ![s] = "CLOSED"]
  /\ onClose(s)
  /\ lastOp' = Op("close", s, userMeta[s].docId, userMeta[s].userId, "none", FALSE)
  /\ UNCHANGED <<locked, userMeta, ended, crashed, nmsgs, regs>>

\* The closing handshake has begun (the peer sent its close frame): the client
\* is still in wss.clients and client.send throws
Closing(s) ==
  /\ ~crashed
  /\ readyState[s] = "OPEN"
  /\ readyState' = [readyState EXCEPT ![s] = "CLOSING"]
  /\ out' = <<>>
  /\ lastOp' = Op("closing", s, "none", "none", "none", FALSE)
  /\ UNCHANGED <<docs, locked, clients, userMeta, stream, ended, crashed, nmsgs,
                 regs, rels, closes, releases>>

\* Mutant of StreamEnd: client.close() on the closed socket runs the 'close'
\* handler once more
StreamEnd_Reclose(s) ==
  /\ ~crashed
  /\ ~ended[s]
  /\ EOS \in SeqToSet(stream[s])
  /\ ended' = [ended EXCEPT ![s] = TRUE]
  /\ readyState' = readyState
  /\ onClose(s)
  /\ lastOp' = Op("end", s, "none", "none", "none", FALSE)
  /\ UNCHANGED <<locked, userMeta, crashed, nmsgs, regs>>

\* stream.on('end'): the engine has read the end-of-stream marker
StreamEnd(s) ==
  /\ ~crashed
  /\ ~ended[s]
  /\ EOS \in SeqToSet(stream[s])
  /\ ended' = [ended EXCEPT ![s] = TRUE]
  /\ readyState' = clientClose(readyState, s)
  /\ out' = <<>>
  /\ lastOp' = Op("end", s, "none", "none", "none", FALSE)
  /\ UNCHANGED <<docs, locked, clients, userMeta, stream, crashed, nmsgs, regs,
                 rels, closes, releases>>

\* stream.on('error'): client.captureMessage is not a function of a WebSocket,
\* so the handler throws before it reaches client.close(msg)
StreamError(s) ==
  /\ ~crashed
  /\ readyState[s] # "NONE"
  /\ crashed' = TRUE
  /\ out' = <<>>
  /\ lastOp' = Op("error", s, "none", "none", "none", FALSE)
  /\ UNCHANGED <<docs, locked, clients, readyState, userMeta, stream, ended,
                 nmsgs, regs, rels, closes, releases>>

----------------------------------------------------------------------------
\* Administrative endpoints

Admin(name, docId, arg, message) ==
  /\ ~crashed
  /\ out' = <<broadcast(clients, readyState, userMeta, docId, message)>>
  /\ lastOp' = Op(name, 0, docId, "none", arg, docId \in locked)
  /\ UNCHANGED <<docs, clients, readyState, userMeta, stream, ended, crashed,
                 nmsgs, regs, rels, closes, releases>>

\* Mutant of Reload: reloading a document clears its lock flag
Reload_Unlocks(docId, p) ==
  Admin("reload", docId, p, ReloadMsg(p)) /\ locked' = unlockDoc(locked, docId)

\* POST /reload/:id
Reload(docId, p) == Admin("reload", docId, p, ReloadMsg(p)) /\ UNCHANGED locked

\* POST /lock/:id
Lock(docId) == Admin("lock", docId, "none", LockMsg) /\ locked' = lockDoc(locked, docId)

\* POST /unlock/:id
Unlock(docId, p) ==
  Admin("unlock", docId, p, UnlockMsg(p)) /\ locked' = unlockDoc(locked, docId)

\* POST /redirect/:id/:redirect
Redirect(docId, p) == Admin("redirect", docId, p, RedirectMsg(p)) /\ UNCHANGED locked

\* Mutant of DeleteDoc: the deleted document's presence entry is dropped
DeleteDoc_DropsPresence(docId, p) ==
  /\ ~crashed
  /\ out' = <<broadcast(clients, readyState, userMeta, docId, DeleteMsg(p))>>
  /\ lastOp' = Op("delete", 0, docId, "none", p, docId \in locked)
  /\ docs' = Del(docs, docId)
  /\ UNCHANGED <<locked, clients, readyState, userMeta, stream, ended, crashed,
                 nmsgs, regs, rels, closes, releases>>

\* POST /delete/:id/:redirect
DeleteDoc(docId, p) == Admin("delete", docId, p, DeleteMsg(p)) /\ UNCHANGED locked

\* GET /healthz
HealthCheck ==
  /\ ~crashed
  /\ out' = <<>>
  /\ lastOp' = Op("healthz", 0, "none", "none", "none", FALSE)
  /\ UNCHANGED <<docs, locked, clients, readyState, userMeta, stream, ended,
                 crashed, nmsgs, regs, rels, closes, releases>>

Next ==
  \/ \E s \in Sessions : Connect(s)
  \/ \E s \in Sessions, m \in Messages : OnMessage(s, m)
  \/ \E s \in Sessions : Close(s)
  \/ \E s \in Sessions : Closing(s)
  \/ \E s \in Sessions : StreamEnd(s)
  \/ \E s \in Sessions : StreamError(s)
  \/ \E d \in DocIds, p \in Payloads : Reload(d, p)
  \/ \E d \in DocIds : Lock(d)
  \/ \E d \in DocIds, p \in Payloads : Unlock(d, p)
  \/ \E d \in DocIds, r \in Redirects : Redirect(d, r)
  \/ \E d \in DocIds, r \in Redirects : DeleteDoc(d, r)
  \/ HealthCheck

Spec == Init /\ [][Next]_vars

\* The server once the first connection has registered as u1 on d1; the
\* history variables start afresh, so arrival numbers count from this state
InitRegistered ==
  /\ docs = register(EmptyMap, "d1", "u1")
  /\ locked = {}
  /\ clients = <<1>>
  /\ readyState = [s \in Sessions |-> IF s = 1 THEN "OPEN" ELSE "NONE"]
  /\ userMeta = [s \in Sessions |->
                   IF s = 1 THEN [docId |-> "d1", userId |-> "u1"] ELSE NoMeta]
  /\ stream = [s \in Sessions |-> <<>>]
  /\ ended = [s \in Sessions |-> FALSE]
  /\ crashed = FALSE
  /\ nmsgs = [s \in Sessions |-> 0]
  /\ regs = [p \in DocIds \X UserIds |-> IF p = <<"d1", "u1">> THEN 1 ELSE 0]
  /\ rels = [p \in DocIds \X UserIds |-> 0]
  /\ closes = [s \in Sessions |-> 0]
  /\ releases = [s \in Sessions |-> 0]
  /\ out = <<>>
  /\ lastOp = Op("init", 0, "none", "none", "none", FALSE)

SpecRegistered == InitRegistered /\ [][Next]_vars

----------------------------------------------------------------------------
\* Observations used by the properties

\* The count of the presence record of (d, u); 0 when there is none
HasRecord(d, u) == Has(docs, d) /\ Has(docs[d], u)
Count(d, u) == IF HasRecord(d, u) THEN docs[d][u].count ELSE 0

\* Sessions attached to document d
Attached(um, d) == {s \in Sessions : um[s] # NoMeta /\ um[s].docId = d}
\* Sessions whose connection is open / still tracked by the server
Open(rs) == {s \in Sessions : rs[s] = "OPEN"}
Tracked(rs) == {s \in Sessions : rs[s] \in {"OPEN", "CLOSING"}}

NoDup(q) == \A i, j \in 1..Len(q) : q[i] = q[j] => i = j
EosCount(q) == Cardinality({i \in 1..Len(q) : q[i] = EOS})
Broadcasts(o) == {i \in 1..Len(o) : o[i].kind = "broadcast"}
Sends(o) == {i \in 1..Len(o) : o[i].kind = "send"}

----------------------------------------------------------------------------
\* C1: for every (docId, userId) the record's count equals the registrations
\* applied to the pair minus the releases applied to it, the difference is
\* never negative, and the record is absent exactly when the difference is 0.
C1_CountIsRegsMinusRels ==
  \A d \in DocIds, u \in UserIds :
    /\ regs[<<d, u>>] - rels[<<d, u>>] >= 0
    /\ HasRecord(d, u) <=> (regs[<<d, u>>] - rels[<<d, u>>] # 0)
    /\ HasRecord(d, u) => docs[d][u].count = regs[<<d, u>>] - rels[<<d, u>>]

\* two registrations and one release of the same pair: the count is 1
C1_Witness ==
  \E d \in DocIds, u \in UserIds :
    /\ regs[<<d, u>>] = 2 /\ rels[<<d, u>>] = 1
    /\ HasRecord(d, u) /\ docs[d][u].count = 1

\* C2: the registry holds no empty document entry and no record with a count
\* below 1; a document key is present iff some user of it has registrations
\* that are not yet released, so the release of a document's last user removes
\* the document key as well.
C2_NoEmptyEntries ==
  /\ \A d \in DOMAIN docs :
       /\ DOMAIN docs[d] # {}
       /\ \A u \in DOMAIN docs[d] : docs[d][u].count >= 1
  /\ \A d \in DocIds :
       Has(docs, d) <=> \E u \in UserIds : regs[<<d, u>>] > rels[<<d, u>>]

\* a close has just released the last user of a document, and the key is gone
C2_Witness ==
  /\ lastOp.op = "close"
  /\ lastOp.docId \in DocIds
  /\ rels[<<lastOp.docId, lastOp.userId>>] = 1
  /\ ~Has(docs, lastOp.docId)

\* C3: a broadcast to docId is delivered exactly to the sessions that are
\* connected and attached to docId when it is issued, once each; sessions
\* attached elsewhere or not registered get nothing.
C3_BroadcastExactSet ==
  \A i \in Broadcasts(out) :
    /\ NoDup(out[i].got)
    /\ SeqToSet(out[i].got) = Open(readyState) \cap Attached(userMeta, out[i].docId)

\* a broadcast reached one session while another open session, attached
\* elsewhere or not registered, got nothing
C3_Witness ==
  /\ Broadcasts(out) # {}
  /\ \E i \in Broadcasts(out) :
       /\ out[i].got # <<>>
       /\ Open(readyState) \ SeqToSet(out[i].got) # {}

\* C4: while a document is locked, a non-registration message from a session
\* registered on it is not pushed to the engine's stream; a {type: lock}
\* notice is broadcast to every session attached to the document instead.
C4_LockedMessageDropped ==
  [][\A s \in Sessions :
       (/\ lastOp'.op = "message" /\ lastOp'.s = s
        /\ lastOp'.arg # "registration"
        /\ userMeta[s] # NoMeta /\ userMeta[s].docId \in locked)
       => /\ stream' = stream
          /\ Len(out') = 1
          /\ out'[1].kind = "broadcast"
          /\ out'[1].msg = LockMsg
          /\ out'[1].docId = userMeta[s].docId
          /\ SeqToSet(out'[1].to) = Tracked(readyState) \cap Attached(userMeta, userMeta[s].docId)
          /\ SeqToSet(out'[1].got) = Open(readyState) \cap Attached(userMeta, userMeta[s].docId)]_vars

\* a data message arrived from a session registered on a locked document
C4_Witness ==
  /\ lastOp.op = "message" /\ lastOp.arg = "data" /\ lastOp.wasLocked
  /\ userMeta[lastOp.s].docId \in locked
  /\ Len(out) = 1 /\ out[1].msg = LockMsg /\ lastOp.s \in SeqToSet(out[1].got)

\* C5: lock(docId) on a document with no attached session sets the flag,
\* delivers nothing and does not fail; a session that registers on a locked
\* document is entered in the presence registry and gets a direct
\* {type: lock} notice that goes to that session alone.
C5_LockThenRegister ==
  [][/\ \A d \in DocIds :
          (lastOp'.op = "lock" /\ lastOp'.docId = d /\ Attached(userMeta, d) = {})
          => /\ d \in locked'
             /\ \A i \in 1..Len(out') : out'[i].got = <<>>
             /\ ~crashed'
     /\ \A s \in Sessions, d \in DocIds, u \in UserIds :
          (/\ lastOp'.op = "message" /\ lastOp'.s = s
           /\ lastOp'.arg = "registration" /\ ~lastOp'.wasLocked
           /\ lastOp'.docId = d /\ lastOp'.userId = u
           /\ d \in locked)
          => /\ Has(docs', d) /\ Has(docs'[d], u)
             /\ docs'[d][u].count >= 1
             /\ userMeta'[s] = [docId |-> d, userId |-> u]
             /\ Cardinality(Sends(out')) = 1
             /\ \A i \in Sends(out') :
                  /\ out'[i].msg = LockMsg
                  /\ out'[i].to = <<s>>
                  /\ out'[i].got = <<s>>]_vars

\* the first registration ever lands on a document that was locked while no
\* session was attached, and the session got the direct notice
C5_Witness ==
  /\ lastOp.op = "message" /\ lastOp.arg = "registration"
  /\ lastOp.docId \in locked
  /\ Total(nmsgs) = 1
  /\ Sends(out) # {}
  /\ \A i \in Sends(out) : out[i].got = <<lastOp.s>> /\ out[i].msg = LockMsg

\* C6: a malformed payload from a registered session changes no state, pushes
\* nothing to the engine, emits no broadcast and raises no error outside the
\* handler.
C6_MalformedIsDropped ==
  [][\A s \in Sessions :
       (/\ lastOp'.op = "message" /\ lastOp'.s = s
        /\ lastOp'.arg = "malformed"
        /\ userMeta[s] # NoMeta)
       => /\ docs' = docs /\ locked' = locked
          /\ userMeta' = userMeta /\ readyState' = readyState
          /\ stream' = stream
          /\ out' = <<>>
          /\ ~crashed']_vars

\* C7: unlock(docId, contributors) on a document that is not locked leaves the
\* lock registry as it is and still broadcasts {type: unlock, contributors} to
\* every session attached to docId; lock or unlock applied a second time
\* leaves the lock state of the first application.
C7_UnlockIdempotent ==
  [][/\ \A d \in DocIds, p \in Payloads :
          (/\ lastOp'.op = "unlock" /\ lastOp'.docId = d /\ lastOp'.arg = p
           /\ d \notin locked)
          => /\ locked' = locked
             /\ Len(out') = 1
             /\ out'[1].kind = "broadcast"
             /\ out'[1].msg = UnlockMsg(p)
             /\ out'[1].docId = d
             /\ SeqToSet(out'[1].to) = Tracked(readyState) \cap Attached(userMeta, d)
             /\ SeqToSet(out'[1].got) = Open(readyState) \cap Attached(userMeta, d)
     /\ (/\ lastOp'.op \in {"lock", "unlock"}
         /\ lastOp.op = lastOp'.op
         /\ lastOp.docId = lastOp'.docId)
        => locked' = locked
     /\ lastOp'.op = "lock" => lastOp'.docId \in locked'
     /\ lastOp'.op = "unlock" => lastOp'.docId \notin locked']_vars

\* an unlock of a document that was not locked reached an attached session
C7_Witness ==
  /\ lastOp.op = "unlock" /\ ~lastOp.wasLocked
  /\ lastOp.docId \notin locked
  /\ Len(out) = 1 /\ out[1].msg = UnlockMsg(lastOp.arg) /\ out[1].got # <<>>

\* C8: a connection close pushes end-of-stream exactly once and releases
\* presence at most once; the close asked for by the stream's 'end' handler
\* on the closed session does nothing: no decrement, no broadcast, no second
\* end-of-stream.
C8_CloseOnce ==
  [][/\ \A s \in Sessions :
          /\ EosCount(stream'[s]) <= 1
          /\ closes'[s] <= 1
          /\ releases'[s] <= 1
          /\ readyState'[s] = "CLOSED" <=> EosCount(stream'[s]) = 1
          /\ readyState'[s] = "CLOSED" => closes'[s] = 1
     /\ lastOp'.op = "end"
        => /\ docs' = docs /\ stream' = stream /\ readyState' = readyState
           /\ clients' = clients /\ rels' = rels /\ releases' = releases
           /\ out' = <<>>]_vars

\* the 'end' handler ran for a session whose close had released its presence
C8_Witness ==
  /\ lastOp.op = "end"
  /\ ended[lastOp.s] /\ releases[lastOp.s] = 1
  /\ readyState[lastOp.s] = "CLOSED"
  /\ EosCount(stream[lastOp.s]) = 1

\* C9: in a broadcast, a failing send (a session that is closing or closed)
\* does not keep the message from the other sessions attached to the
\* document, no error reaches the caller, and neither registry is changed by
\* the broadcast.
C9_BroadcastBestEffort ==
  [][/\ \A i \in Broadcasts(out') :
          \A j \in 1..Len(out'[i].to) :
            readyState'[out'[i].to[j]] = "OPEN"
            => out'[i].to[j] \in SeqToSet(out'[i].got)
     /\ lastOp'.op \in {"reload", "redirect", "delete", "lock", "unlock"}
        => /\ ~crashed'
           /\ docs' = docs
           /\ Len(out') = 1
     /\ lastOp'.op \in {"reload", "redirect", "delete"} => locked' = locked]_vars

\* a broadcast whose first send failed still reached a later session
C9_Witness ==
  \E i \in Broadcasts(out) :
    /\ Len(out[i].to) = 2
    /\ readyState[out[i].to[1]] = "CLOSING"
    /\ out[i].got = <<out[i].to[2]>>

\* C10: a session whose connection has closed stays closed and is the
\* recipient of no broadcast issued from then on, the presence broadcast of
\* its own close included.
C10_ClosedGetsNothing ==
  [][\A s \in Sessions :
       /\ readyState[s] = "CLOSED" => readyState'[s] = "CLOSED"
       /\ readyState'[s] = "CLOSED"
          => \A i \in 1..Len(out') : s \notin SeqToSet(out'[i].got)]_vars

\* a broadcast to a document reached a session while another session attached
\* to the same document was closed
C10_Witness ==
  \E i \in Broadcasts(out), s \in Sessions :
    /\ readyState[s] = "CLOSED"
    /\ userMeta[s] # NoMeta /\ userMeta[s].docId = out[i].docId
    /\ out[i].got # <<>>

\* C11: once a session has registered, no later message from it changes the
\* presence registry or the pair it is attached to: the message is dropped
\* with a lock-notice rebroadcast (document locked) or pushed to the engine's
\* stream (document unlocked), a message with a registration marker included.
C11_RegisteredMessagesOnlyForwarded ==
  [][\A s \in Sessions :
       (lastOp'.op = "message" /\ lastOp'.s = s /\ userMeta[s] # NoMeta)
       => /\ docs' = docs
          /\ userMeta' = userMeta
          /\ IF userMeta[s].docId \in locked
             THEN /\ stream' = stream
                  /\ Len(out') = 1 /\ out'[1].kind = "broadcast"
                  /\ out'[1].msg = LockMsg
             ELSE /\ stream' = [stream EXCEPT ![s] = Append(@, nmsgs'[s])]
                  /\ out' = <<>>]_vars

\* C12: for every (docId, userId) the record's count is the number of open
\* sessions attached to the pair; the record is present iff there is one.
C12_CountIsOpenSessions ==
  \A d \in DocIds, u \in UserIds :
    Count(d, u) =
      Cardinality({s \in Tracked(readyState) :
                     userMeta[s] = [docId |-> d, userId |-> u]})

C14_FirstRegistration ==
  [][\A s \in Sessions, d \in DocIds, u \in UserIds :
       (/\ lastOp'.op = "message" /\ lastOp'.s = s
        /\ lastOp'.arg = "registration"
        /\ lastOp'.docId = d /\ lastOp'.userId = u
        /\ userMeta[s] = NoMeta)
       => /\ userMeta' = [userMeta EXCEPT ![s] = [docId |-> d, userId |-> u]]
          /\ HasRecord(d, u)'
          /\ Count(d, u)' = Count(d, u) + 1
          /\ \A d2 \in DocIds, u2 \in UserIds :
               <<d2, u2>> # <<d, u>>
               => /\ HasRecord(d2, u2)' <=> HasRecord(d2, u2)
                  /\ Count(d2, u2)' = Count(d2, u2)
          /\ Len(out') >= 1
          /\ out'[1].kind = "broadcast"
          /\ out'[1].docId = d
          /\ out'[1].msg = [type |-> "meta",
                            body |-> [defined |-> TRUE, users |-> docs'[d]]]
          /\ SeqToSet(out'[1].to) = Tracked(readyState) \cap Attached(userMeta', d)
          /\ SeqToSet(out'[1].got) = Open(readyState) \cap Attached(userMeta', d)
          /\ s \in SeqToSet(out'[1].got)
          /\ Broadcasts(out') = {1}]_vars

\* a second session has registered on a pair that already had a record: the
\* count is 2 and both sessions got the presence broadcast
C14_Witness ==
  /\ lastOp.op = "message" /\ lastOp.arg = "registration"
  /\ lastOp.docId \in DocIds /\ lastOp.userId \in UserIds
  /\ Count(lastOp.docId, lastOp.userId) = 2
  /\ Len(out) >= 1 /\ Len(out[1].got) = 2

\* C15: when a registered session closes, the count of its record goes down
\* by exactly 1 (the record, and the document entry once empty, removed at 0)
\* and {type: meta} with the presence of the document after the release is
\* broadcast to the sessions still attached to it; when a session that never
\* registered closes, neither registry changes and nothing is broadcast.
C15_CloseReleases ==
  [][\A s \in Sessions :
       (lastOp'.op = "close" /\ lastOp'.s = s)
       => IF userMeta[s] # NoMeta
          THEN LET d == userMeta[s].docId
                   u == userMeta[s].userId
               IN /\ Count(d, u)' = Count(d, u) - 1
                  /\ HasRecord(d, u)' <=> Count(d, u) > 1
                  /\ Has(docs', d) <=> \E u2 \in UserIds : HasRecord(d, u2)'
                  /\ \A d2 \in DocIds, u2 \in UserIds :
                       <<d2, u2>> # <<d, u>>
                       => /\ HasRecord(d2, u2)' <=> HasRecord(d2, u2)
                          /\ Count(d2, u2)' = Count(d2, u2)
                  /\ locked' = locked
                  /\ Len(out') = 1
                  /\ out'[1].kind = "broadcast"
                  /\ out'[1].docId = d
                  /\ out'[1].msg = MetaMsg(docs', d)
                  /\ SeqToSet(out'[1].to)
                       = (Tracked(readyState) \cap Attached(userMeta, d)) \ {s}
                  /\ SeqToSet(out'[1].got)
                       = (Open(readyState) \cap Attached(userMeta, d)) \ {s}
          ELSE /\ docs' = docs
               /\ locked' = locked
               /\ out' = <<>>]_vars

\* one of two sessions of the same user and document has closed: the count
\* is 1 and the other session got the presence broadcast
C15_Witness ==
  /\ lastOp.op = "close" /\ lastOp.docId \in DocIds
  /\ Count(lastOp.docId, lastOp.userId) = 1
  /\ Len(out) = 1 /\ Len(out[1].got) = 1
  /\ out[1].msg.body.defined

\* C16: only the lock and unlock endpoints change the lock registry: connect,
\* registration, any inbound message, close, reload, redirect, delete and the
\* health check leave the lock flag of every document as it was.
C16_OnlyLockUnlockChangeLocks ==
  [][lastOp'.op \notin {"lock", "unlock"} => locked' = locked]_vars

\* a handler other than lock and unlock has run while a document was locked
C16_Witness ==
  /\ lastOp.op \in {"message", "close"}
  /\ lastOp.docId \in locked

\* C17: reload, lock, unlock, redirect and delete change neither the presence
\* registry nor any session's attachment and deliver their message only to
\* sessions attached to the target docId; the health check changes no core
\* state and delivers nothing.
C17_AdminFrame ==
  [][/\ lastOp'.op \in {"reload", "lock", "unlock", "redirect", "delete"}
        => /\ docs' = docs
           /\ userMeta' = userMeta
           /\ readyState' = readyState /\ clients' = clients /\ stream' = stream
           /\ Len(out') = 1
           /\ out'[1].kind = "broadcast"
           /\ out'[1].docId = lastOp'.docId
           /\ out'[1].msg.type = lastOp'.op
           /\ SeqToSet(out'[1].got) \subseteq Attached(userMeta, lastOp'.docId)
           /\ SeqToSet(out'[1].to) \subseteq Attached(userMeta, lastOp'.docId)
     /\ lastOp'.op = "healthz"
        => /\ docs' = docs /\ locked' = locked
           /\ userMeta' = userMeta
           /\ readyState' = readyState /\ clients' = clients /\ stream' = stream
           /\ out' = <<>>]_vars

\* a delete reached the session attached to its document and not the open
\* session attached to the other document
C17_Witness ==
  /\ lastOp.op = "delete"
  /\ Len(out) = 1 /\ Len(out[1].got) = 1
  /\ \E s \in Open(readyState) :
       userMeta[s] # NoMeta /\ userMeta[s].docId # lastOp.docId
  /\ Has(docs, lastOp.docId)

\* C19: a well-formed non-registration message from a session that has not
\* registered is pushed to the engine's stream whatever documents are locked,
\* with no broadcast and no registry change.
C19_UnregisteredAlwaysForwarded ==
  [][\A s \in Sessions :
       (/\ lastOp'.op = "message" /\ lastOp'.s = s
        /\ lastOp'.arg = "data"
        /\ userMeta[s] = NoMeta)
       => /\ stream' = [stream EXCEPT ![s] = Append(@, nmsgs'[s])]
          /\ out' = <<>>
          /\ docs' = docs /\ locked' = locked
          /\ userMeta' = userMeta
          /\ ~crashed']_vars

\* an unregistered session's message was pushed while every document was locked
C19_Witness ==
  /\ lastOp.op = "message" /\ lastOp.arg = "data"
  /\ userMeta[lastOp.s] = NoMeta
  /\ locked = DocIds
  /\ stream[lastOp.s] # <<>>

\* The records pushed to a stream, the end-of-stream marker left out
IsRecord(x) == x # EOS
Records(q) == SelectSeq(q, IsRecord)
IsPrefix(p, q) == Len(p) <= Len(q) /\ \A i \in 1..Len(p) : p[i] = q[i]

\* C18: nothing is queued across a lock.  A message handled while its
\* sender's document is locked is not pushed then and never later: a stream
\* only grows at its end, and only by the message being handled, so its
\* records are strictly increasing arrival numbers.  A well-formed
\* non-registration message handled while the sender's document is unlocked
\* is pushed to the sender's stream once, at that step.
C18_NoQueueing ==
  [][/\ \A s \in Sessions :
          /\ IsPrefix(stream[s], stream'[s])
          /\ LET recs == Records(stream'[s])
             IN /\ \A i \in 1..(Len(recs) - 1) : recs[i] < recs[i + 1]
                /\ \A i \in 1..Len(recs) : recs[i] <= nmsgs'[s]
                /\ recs # Records(stream[s])
                   => /\ lastOp'.op = "message" /\ lastOp'.s = s
                      /\ lastOp'.arg = "data" /\ ~lastOp'.wasLocked
          /\ (lastOp'.op = "message" /\ lastOp'.s = s)
             => /\ nmsgs'[s] = nmsgs[s] + 1
                /\ lastOp'.wasLocked
                   <=> (userMeta[s] # NoMeta /\ userMeta[s].docId \in locked)
                /\ lastOp'.wasLocked => stream' = stream
                /\ (lastOp'.arg = "data" /\ ~lastOp'.wasLocked)
                   => stream' = [stream EXCEPT ![s] = Append(@, nmsgs'[s])]]_vars

\* the registered session's first message was dropped under the lock and its
\* second, after the unlock, is the only record of its stream
C18_Witness ==
  /\ lastOp.op = "message" /\ lastOp.arg = "data" /\ ~lastOp.wasLocked
  /\ lastOp.s = 1
  /\ userMeta[1] = [docId |-> "d1", userId |-> "u1"]
  /\ Sum(regs, DOMAIN regs) = 1
  /\ nmsgs[1] = 2
  /\ stream[1] = <<2>>

\* C20: a stream-level error signalled by the engine closes the session's raw
\* connection (its presence is then released by the close handler); no
\* other session and no presence record is affected by the error itself.
C20_StreamErrorCloses ==
  [][\A s \in Sessions :
       (lastOp'.op = "error" /\ lastOp'.s = s)
       => /\ ~crashed'
          /\ readyState[s] = "OPEN" => readyState'[s] \in {"CLOSING", "CLOSED"}
          /\ \A r \in Sessions \ {s} :
               readyState'[r] = readyState[r] /\ userMeta'[r] = userMeta[r]
          /\ docs' = docs]_vars

====
